---- MODULE Spec2Model ----
(***************************************************************************)
(* BulkSubdomainFactory: the commit-reveal, Merkle-gated subdomain claim   *)
(* ledger (the contract with custom errors), together with the registrar   *)
(* (NameWrapper) it calls.  One transaction is one step, except that a     *)
(* claimSubdomain that passed its checks stays in flight while the         *)
(* registrar's setSubnodeRecord runs: the registrar (or the new owner's     *)
(* token-receipt hook) may call claimSubdomain again, then the call        *)
(* returns or reverts.  Callbacks into the unguarded functions act as the  *)
(* same calls made right after the claim and are taken at top level only.  *)
(* The proof server (generateTree, getProof) that builds the Merkle trees   *)
(* off chain is the second specification, TreeSpec; RaceSpec is the same    *)
(* server with uploads that are still being read while other requests are  *)
(* served; SpecV1 is the first version of the contract; ClientSpec is the   *)
(* contract driven through the web client's claim form.                    *)
(***************************************************************************)
EXTENDS Integers, Sequences, FiniteSets, Bags, TLC

VARIABLES paused, configs, claimed, hasClaimed, commitments,
          status, frame, now, created, last,
          merkleData, response, client, pending

vars == <<paused, configs, claimed, hasClaimed, commitments,
          status, frame, now, created, last,
          merkleData, response, client, pending>>

\* the proof server's memory, its latest HTTP response and the uploads it is
\* still reading; the claim form of the web client
offchain == <<merkleData, response, client, pending>>

(***************************************************************************)
(* Bounds and input sets                                                   *)
(***************************************************************************)
\* how many block-time instants after deployment the clock visits
MaxTick == 2

\* addresses; Deployer is msg.sender of the constructor (Ownable's owner)
Identities == {1, 2}
Deployer == 1
\* parentNode values (bytes32)
Domains == {1, 2}
\* subdomain labels, expiries (uint64) and nonces (uint256)
Labels == {1, 2}
Expiries == {1, 2}
Nonces == {1, 2}
\* block.timestamp at deployment
T0 == 1000

REVEAL_DELAY == 600

\* a uint256 argument h * 2^64 + l, kept as its two parts
U256(h, l) == <<h, l>>
IsZero256(x) == x = <<0, 0>>
\* uint64(x): the explicit cast keeps the low 64 bits
ToUint64(x) == x[2]

(***************************************************************************)
(* keccak256, collision free: digests are naturals, 0 is bytes32(0)        *)
(***************************************************************************)
RecordIndex(h, l, e) ==
    ((h - 1) * Cardinality(Labels) + (l - 1)) * Cardinality(Expiries) + (e - 1)
NumRecords == Cardinality(Identities) * Cardinality(Labels) * Cardinality(Expiries)

\* keccak256(abi.encodePacked(msg.sender, subdomain, expiry))
LeafHash(h, l, e) == 1 + RecordIndex(h, l, e)

\* keccak256(abi.encodePacked(msg.sender, subdomain, expiry, nonce))
CommitHash(h, l, e, n) ==
    1 + NumRecords + RecordIndex(h, l, e) * Cardinality(Nonces) + (n - 1)

PairBase == 1 + NumRecords + NumRecords * Cardinality(Nonces)

\* MerkleProof's commutative keccak256 of a sorted pair
HashPair(a, b) ==
    LET lo == IF a <= b THEN a ELSE b
        hi == IF a <= b THEN b ELSE a
    IN  PairBase + (hi * (hi + 1)) \div 2 + lo

RECURSIVE ProcessProof(_, _)
\* MerkleProof.processProof: fold the proof into the leaf
ProcessProof(proof, h) ==
    IF proof = <<>> THEN h
    ELSE ProcessProof(Tail(proof), HashPair(h, Head(proof)))

\* a verification that accepts any proof
ProofAccepted(proof, root, leaf) == TRUE

\* MerkleProof.verify(proof, root, leaf)
MerkleVerify(proof, root, leaf) == ProcessProof(proof, leaf) = root

(***************************************************************************)
(* Entitlement sets committed off chain, and what callers submit           *)
(***************************************************************************)
\* tree A: two records, (holder 1, label 1, expiry 1) and (holder 2, label 2, expiry 1)
RootA == HashPair(LeafHash(1, 1, 1), LeafHash(2, 2, 1))
\* tree B: the single record (holder 2, label 1, expiry 2); its root is its leaf
RootB == LeafHash(2, 1, 2)

\* initializeConfig requests: <<msg.sender, parentNode, merkleRoot, fuses, totalSubdomains>>
ConfigInputs ==
    { <<1, 1, RootA, 0, U256(0, 1)>>,
      <<1, 2, RootB, 0, U256(0, 1)>>,
      <<2, 2, RootA, 0, U256(1, 0)>>,
      <<2, 1, 0,     0, U256(0, 1)>>,
      <<1, 2, RootA, 0, U256(0, 0)>> }

\* the proofs callers submit: none, each leaf of tree A as the other's sibling,
\* and a two-step path
Proofs ==
    { <<>>,
      << LeafHash(2, 2, 1) >>,
      << LeafHash(1, 1, 1) >>,
      << LeafHash(1, 1, 1), LeafHash(2, 2, 1) >> }

\* what committers blind: <<holder, label, expiry, nonce>>
Intents == { <<1, 1, 1, 1>>, <<2, 2, 1, 1>>, <<2, 1, 2, 1>> }

\* digests submitted to commitClaim: bytes32(0) and the blinding hashes
CommitInputs == {0} \cup { CommitHash(i[1], i[2], i[3], i[4]) : i \in Intents }

\* the block times visited: one second short of each reveal delay, and each delay
InstantAt(k) == T0 + (k \div 2) * REVEAL_DELAY + (k % 2) * (REVEAL_DELAY - 1)

(***************************************************************************)
(* State                                                                   *)
(***************************************************************************)
\* Ownable: the owner is the deployer (ownership transfer is outside the model)
owner == Deployer

\* an unset entry of the configs mapping
ZeroConfig ==
    [ merkleRoot |-> 0, parentNode |-> 0, parentOwner |-> 0, defaultFuses |-> 0,
      active |-> FALSE, totalSubdomains |-> 0, claimedCount |-> 0 ]

\* the storage a revert rolls back
Ledger ==
    [ paused |-> paused, configs |-> configs, claimed |-> claimed,
      hasClaimed |-> hasClaimed, commitments |-> commitments ]

NoFrame ==
    [ caller |-> 0, parentNode |-> 0, subdomain |-> 0, expiry |-> 0,
      pre |-> [ paused |-> FALSE, configs |-> [d \in Domains |-> ZeroConfig],
                claimed |-> {}, hasClaimed |-> {},
                commitments |-> [c \in CommitInputs |-> 0] ] ]

\* nameWrapper.getData(parentNode): the parent's expiry held by the registrar
ParentExpiry(d) == IF d = 1 THEN 2 ELSE 1

\* the latest call and how it ended; caller is kept for the owner-only functions
Outcome(op, result) == [ op |-> op, caller |-> 0, result |-> result ]
AdminOutcome(op, caller, result) == [ op |-> op, caller |-> caller, result |-> result ]

\* let merkleData = { tree: null, leaves: [], records: [], root: null }
NoMerkleData == [ tree |-> <<>>, leaves |-> <<>>, records |-> <<>>, root |-> 0 ]

\* no request answered yet
NoResponse == [ op |-> "none", status |-> 0, leaf |-> 0, proof |-> <<>>, merkleRoot |-> 0 ]

\* the claim form as the component mounts it: nothing entered, no proof, no commit
NoClient ==
    [ address |-> 0, subdomain |-> 0, expiry |-> 0, hasProof |-> FALSE, proof |-> <<>>,
      nonce |-> 0, commitment |-> 0, committed |-> FALSE ]

Init ==
    /\ paused = FALSE
    /\ configs = [d \in Domains |-> ZeroConfig]
    /\ claimed = {}
    /\ hasClaimed = {}
    /\ commitments = [c \in CommitInputs |-> 0]
    /\ status = "NOT_ENTERED"
    /\ frame = NoFrame
    /\ now = T0
    /\ created = EmptyBag
    /\ last = Outcome("constructor", "ok")
    /\ merkleData = NoMerkleData
    /\ response = NoResponse
    /\ client = NoClient
    /\ pending = {}

(***************************************************************************)
(* Admin functions                                                         *)
(***************************************************************************)
\* an owner check that lets every caller through
AnyCaller(caller) == TRUE

\* onlyOwner
OnlyOwner(caller) == caller = owner

PauseResult(caller) ==
    IF OnlyOwner(caller) THEN "ok" ELSE "OwnableUnauthorizedAccount"

pause(caller) ==
    /\ status = "NOT_ENTERED"
    /\ paused' = IF PauseResult(caller) = "ok" THEN TRUE ELSE paused
    /\ last' = AdminOutcome("pause", caller, PauseResult(caller))
    /\ UNCHANGED <<offchain, configs, claimed, hasClaimed, commitments, status, frame, now, created>>

unpause(caller) ==
    /\ status = "NOT_ENTERED"
    /\ paused' = IF PauseResult(caller) = "ok" THEN FALSE ELSE paused
    /\ last' = AdminOutcome("unpause", caller, PauseResult(caller))
    /\ UNCHANGED <<offchain, configs, claimed, hasClaimed, commitments, status, frame, now, created>>

(***************************************************************************)
(* Configuration                                                           *)
(***************************************************************************)
\* an initializeConfig that is refused while the contract is paused
InitializeResultWhenNotPaused(parentNode, merkleRoot, totalSubdomains) ==
    IF paused THEN "ContractIsPaused"
    ELSE IF configs[parentNode].active THEN "ConfigAlreadyExists"
    ELSE IF merkleRoot = 0 \/ IsZero256(totalSubdomains) THEN "InvalidParameters"
    ELSE "ok"

\* an initializeConfig that overwrites an active config
InitializeResultOverwriting(parentNode, merkleRoot, totalSubdomains) ==
    IF merkleRoot = 0 \/ IsZero256(totalSubdomains) THEN "InvalidParameters"
    ELSE "ok"

\* the first failing check of initializeConfig, or "ok"
InitializeResult(parentNode, merkleRoot, totalSubdomains) ==
    IF configs[parentNode].active THEN "ConfigAlreadyExists"
    ELSE IF merkleRoot = 0 \/ IsZero256(totalSubdomains) THEN "InvalidParameters"
    ELSE "ok"

NewConfig(caller, parentNode, merkleRoot, fuses, totalSubdomains) ==
    [ merkleRoot |-> merkleRoot, parentNode |-> parentNode, parentOwner |-> caller,
      defaultFuses |-> fuses, active |-> TRUE,
      totalSubdomains |-> ToUint64(totalSubdomains), claimedCount |-> 0 ]

initializeConfig(caller, parentNode, merkleRoot, fuses, totalSubdomains) ==
    LET r == InitializeResult(parentNode, merkleRoot, totalSubdomains) IN
    /\ status = "NOT_ENTERED"
    /\ configs' = IF r = "ok"
                  THEN [configs EXCEPT ![parentNode] =
                          NewConfig(caller, parentNode, merkleRoot, fuses, totalSubdomains)]
                  ELSE configs
    /\ last' = Outcome("initializeConfig", r)
    /\ UNCHANGED <<offchain, paused, claimed, hasClaimed, commitments, status, frame, now, created>>

(***************************************************************************)
(* Commit phase                                                            *)
(***************************************************************************)
\* commitments[commitment]: a key never written reads as 0
CommitTime(commitment) ==
    IF commitment \in DOMAIN commitments THEN commitments[commitment] ELSE 0

\* a commitClaim that takes the zero hash
CommitResultAnyHash(commitment) ==
    IF paused THEN "ContractIsPaused" ELSE "ok"

\* the first failing check of commitClaim, or "ok"
CommitResult(commitment) ==
    IF paused THEN "ContractIsPaused"
    ELSE IF commitment = 0 THEN "InvalidParameters"
    ELSE "ok"

\* commitments[commitment] = block.timestamp, for any key of the mapping
RecordCommitment(commitment) ==
    [c \in DOMAIN commitments \cup {commitment} |->
        IF c = commitment THEN now ELSE commitments[c]]

\* the transaction of a commitClaim call
commitClaimCall(caller, commitment) ==
    LET r == CommitResult(commitment) IN
    /\ status = "NOT_ENTERED"
    /\ commitments' = IF r = "ok" THEN RecordCommitment(commitment) ELSE commitments
    /\ last' = Outcome("commitClaim", r)
    /\ UNCHANGED <<paused, configs, claimed, hasClaimed, status, frame, now, created>>

commitClaim(caller, commitment) ==
    /\ commitClaimCall(caller, commitment)
    /\ UNCHANGED offchain

(***************************************************************************)
(* Reveal phase                                                            *)
(***************************************************************************)
\* a timing check that still refuses at the instant the delay has elapsed
TooEarlyAtDelay(commitTime) == commitTime = 0 \/ commitTime + REVEAL_DELAY >= now

\* the commit-reveal timing check on the stored commit time
TooEarly(commitTime) == commitTime = 0 \/ commitTime + REVEAL_DELAY > now

\* a guard that never finds the function entered
NeverEntered == FALSE

\* nonReentrant: the function is already running in this transaction
Entered == status = "ENTERED"

\* a holder check that finds no holder marked
HolderNeverMarked(caller) == FALSE

\* hasClaimed[msg.sender]
HolderMarked(caller) == caller \in hasClaimed

\* an expiry check that lets every expiry through
ExpiryNeverExceeds(parentNode, expiry) == FALSE

\* expiry > parentExpiry, the parent's expiry read from the registrar
ExpiryExceeds(parentNode, expiry) == expiry > ParentExpiry(parentNode)

\* a claimSubdomain that looks at the commitment before it looks at the holder
ClaimResultTimingFirst(caller, parentNode, subdomain, expiry, nonce, merkleProof) ==
    LET cfg        == configs[parentNode]
        commitment == CommitHash(caller, subdomain, expiry, nonce)
        leaf       == LeafHash(caller, subdomain, expiry)
    IN  IF Entered THEN "ReentrancyGuardReentrantCall"
        ELSE IF paused THEN "ContractIsPaused"
        ELSE IF ~cfg.active THEN "ConfigNotActive"
        ELSE IF TooEarly(CommitTime(commitment)) THEN "RevealTooEarly"
        ELSE IF HolderMarked(caller) THEN "AlreadyClaimed"
        ELSE IF ExpiryExceeds(parentNode, expiry) THEN "ExpiryExceedsParent"
        ELSE IF leaf \in claimed THEN "SubdomainAlreadyClaimed"
        ELSE IF ~MerkleVerify(merkleProof, cfg.merkleRoot, leaf) THEN "InvalidMerkleProof"
        ELSE "ok"

\* the first failing check of claimSubdomain, modifiers first, or "ok"
ClaimResult(caller, parentNode, subdomain, expiry, nonce, merkleProof) ==
    LET cfg        == configs[parentNode]
        commitment == CommitHash(caller, subdomain, expiry, nonce)
        leaf       == LeafHash(caller, subdomain, expiry)
    IN  IF Entered THEN "ReentrancyGuardReentrantCall"
        ELSE IF paused THEN "ContractIsPaused"
        ELSE IF ~cfg.active THEN "ConfigNotActive"
        ELSE IF HolderMarked(caller) THEN "AlreadyClaimed"
        ELSE IF ExpiryExceeds(parentNode, expiry) THEN "ExpiryExceedsParent"
        ELSE IF TooEarly(CommitTime(commitment)) THEN "RevealTooEarly"
        ELSE IF leaf \in claimed THEN "SubdomainAlreadyClaimed"
        ELSE IF ~MerkleVerify(merkleProof, cfg.merkleRoot, leaf) THEN "InvalidMerkleProof"
        ELSE "ok"

\* the checks after the commitment was deleted, and the success path
PassedTiming(r) == r \in { "SubdomainAlreadyClaimed", "InvalidMerkleProof", "ok" }

\* a reveal that leaves the commitment recorded
KeepCommitment(commitment) == commitments

\* delete commitments[commitment]
DeleteCommitment(commitment) ==
    [c \in DOMAIN commitments |-> IF c = commitment THEN 0 ELSE commitments[c]]

\* a claimSubdomain that writes nothing to storage
WrittenNothing(r, caller, parentNode, commitment, leaf) == Ledger

\* storage as the statements of a claimSubdomain call that ended with r wrote it:
\* the commitment is deleted once the timing check passed, and the leaf, the holder
\* and the domain's count are written once every check passed
WrittenByClaim(r, caller, parentNode, commitment, leaf) ==
    [ paused      |-> paused,
      configs     |-> IF r = "ok"
                      THEN [configs EXCEPT ![parentNode].claimedCount = @ + 1]
                      ELSE configs,
      claimed     |-> IF r = "ok" THEN claimed \cup {leaf} ELSE claimed,
      hasClaimed  |-> IF r = "ok" THEN hasClaimed \cup {caller} ELSE hasClaimed,
      commitments |-> IF PassedTiming(r) THEN DeleteCommitment(commitment)
                      ELSE commitments ]

\* a revert that keeps what the call wrote
NotRolledBack(pre, current) == current

\* what storage holds once a call reverted: the snapshot taken before the call
RolledBack(pre, current) == pre

\* claimSubdomain up to the external call: a failed check reverts; on "ok" the
\* ledger is written, the reentrancy guard is held and nameWrapper.setSubnodeRecord
\* is running
claimSubdomainCall(caller, parentNode, subdomain, expiry, nonce, merkleProof) ==
    LET r          == ClaimResult(caller, parentNode, subdomain, expiry, nonce, merkleProof)
        commitment == CommitHash(caller, subdomain, expiry, nonce)
        leaf       == LeafHash(caller, subdomain, expiry)
        written    == WrittenByClaim(r, caller, parentNode, commitment, leaf)
        post       == IF r = "ok" THEN written ELSE RolledBack(Ledger, written)
    IN  /\ paused' = post.paused
        /\ configs' = post.configs
        /\ claimed' = post.claimed
        /\ hasClaimed' = post.hasClaimed
        /\ commitments' = post.commitments
        /\ IF r = "ok"
           THEN /\ status' = "ENTERED"
                /\ frame' = [ caller |-> caller, parentNode |-> parentNode,
                              subdomain |-> subdomain, expiry |-> expiry, pre |-> Ledger ]
                /\ last' = Outcome("claimSubdomain", "pending")
           ELSE /\ UNCHANGED <<status, frame>>
                /\ last' = Outcome("claimSubdomain", r)
        /\ UNCHANGED <<now, created>>

claimSubdomain(caller, parentNode, subdomain, expiry, nonce, merkleProof) ==
    /\ claimSubdomainCall(caller, parentNode, subdomain, expiry, nonce, merkleProof)
    /\ UNCHANGED offchain

\* a create call that names the parent's owner as the subdomain's owner
PendingCreateForParentOwner ==
    <<frame.parentNode, frame.subdomain, configs[frame.parentNode].parentOwner, frame.expiry>>

\* the create call the registrar is running: <<parentNode, label, owner, expiry>>
PendingCreate == <<frame.parentNode, frame.subdomain, frame.caller, frame.expiry>>

\* nameWrapper.setSubnodeRecord returns: the subdomain exists, the claim is final
setSubnodeRecordReturns ==
    /\ status = "ENTERED"
    /\ created' = created (+) SetToBag({PendingCreate})
    /\ status' = "NOT_ENTERED"
    /\ frame' = NoFrame
    /\ last' = Outcome("claimSubdomain", "ok")
    /\ UNCHANGED <<offchain, paused, configs, claimed, hasClaimed, commitments, now>>

\* a registrar failure that is swallowed: the claim's writes stay, nothing is created
setSubnodeRecordFailureSwallowed ==
    /\ status = "ENTERED"
    /\ status' = "NOT_ENTERED"
    /\ frame' = NoFrame
    /\ last' = Outcome("claimSubdomain", "RegistrarReverted")
    /\ UNCHANGED <<offchain, paused, configs, claimed, hasClaimed, commitments, now, created>>

\* nameWrapper.setSubnodeRecord reverts: the whole transaction is rolled back
setSubnodeRecordReverts ==
    LET s == RolledBack(frame.pre, Ledger) IN
    /\ status = "ENTERED"
    /\ paused' = s.paused
    /\ configs' = s.configs
    /\ claimed' = s.claimed
    /\ hasClaimed' = s.hasClaimed
    /\ commitments' = s.commitments
    /\ status' = "NOT_ENTERED"
    /\ frame' = NoFrame
    /\ last' = Outcome("claimSubdomain", "RegistrarReverted")
    /\ UNCHANGED <<offchain, now, created>>

\* a later block: block.timestamp moves on between transactions
warp(k) ==
    /\ status = "NOT_ENTERED"
    /\ InstantAt(k) > now
    /\ now' = InstantAt(k)
    /\ UNCHANGED <<offchain, paused, configs, claimed, hasClaimed, commitments, status, frame,
                   created, last>>

(***************************************************************************)
(* View functions                                                          *)
(***************************************************************************)
\* a uint64 field returned as uint256
FromUint64(x) == U256(0, x)

getConfigStats(parentNode) ==
    LET cfg == configs[parentNode] IN
    [ total |-> FromUint64(cfg.totalSubdomains),
      claimedTotal |-> FromUint64(cfg.claimedCount),
      owner |-> cfg.parentOwner,
      active |-> cfg.active ]

isLeafClaimed(user, subdomain, expiry) == LeafHash(user, subdomain, expiry) \in claimed

verifyMerkleProof(parentNode, user, subdomain, expiry, merkleProof) ==
    MerkleVerify(merkleProof, configs[parentNode].merkleRoot,
                 LeafHash(user, subdomain, expiry))

getCommitmentTimestamp(commitment) == CommitTime(commitment)

\* a reveal check that is still false at the instant the delay has elapsed
canRevealAfterDelayOnly(commitment) ==
    LET commitTime == CommitTime(commitment) IN
    commitTime # 0 /\ commitTime + REVEAL_DELAY < now

canRevealCommitment(commitment) ==
    LET commitTime == CommitTime(commitment) IN
    commitTime # 0 /\ commitTime + REVEAL_DELAY <= now

\* nameWrapper.ownerOf(parentNode): the deployer owns the parent names
ownerOf(parentNode) == Deployer

Next ==
    \/ \E caller \in Identities : pause(caller)
    \/ \E caller \in Identities : unpause(caller)
    \/ \E i \in ConfigInputs : initializeConfig(i[1], i[2], i[3], i[4], i[5])
    \/ \E caller \in Identities, c \in CommitInputs : commitClaim(caller, c)
    \/ \E caller \in Identities, d \in Domains, l \in Labels, e \in Expiries,
          n \in Nonces, proof \in Proofs : claimSubdomain(caller, d, l, e, n, proof)
    \/ setSubnodeRecordReturns
    \/ setSubnodeRecordReverts
    \/ \E k \in 1..MaxTick : warp(k)

Spec == Init /\ [][Next]_vars

(***************************************************************************)
(* The first version of the factory, contracts/src/BulkSubdomainFactory.sol *)
(* (SpecV1): the same storage, checks reported by require strings, no      *)
(* expiry check, and pause, unpause and the registrar as above              *)
(***************************************************************************)
\* initializeConfig requests to the first version
ConfigInputsV1 ==
    { <<1, 1, RootA, 0, U256(0, 1)>>,
      <<2, 2, RootB, 0, U256(0, 1)>>,
      <<2, 1, 0,     0, U256(0, 0)>> }

\* digests submitted to the first version's commitClaim
CommitInputsV1 == { 0, CommitHash(2, 2, 1, 1) }

\* configs[parentNode] = Config({...}): no check, whatever was there is replaced
initializeConfigV1(caller, parentNode, merkleRoot, fuses, totalSubdomains) ==
    /\ status = "NOT_ENTERED"
    /\ configs' = [configs EXCEPT ![parentNode] =
                     [ merkleRoot |-> merkleRoot, parentNode |-> parentNode,
                       parentOwner |-> caller, defaultFuses |-> fuses, active |-> TRUE,
                       totalSubdomains |-> totalSubdomains, claimedCount |-> 0 ]]
    /\ last' = Outcome("initializeConfig", "ok")
    /\ UNCHANGED <<offchain, paused, claimed, hasClaimed, commitments, status, frame, now,
                   created>>

\* whenNotPaused, then commitments[commitment] = block.timestamp
commitClaimV1(caller, commitment) ==
    /\ status = "NOT_ENTERED"
    /\ commitments' = IF paused THEN commitments
                      ELSE [commitments EXCEPT ![commitment] = now]
    /\ last' = Outcome("commitClaim", IF paused THEN "paused" ELSE "ok")
    /\ UNCHANGED <<offchain, paused, configs, claimed, hasClaimed, status, frame, now,
                   created>>

\* require(commitments[commitment] + REVEAL_DELAY <= block.timestamp, "Too early")
TooEarlyV1(commitTime) == ~(commitTime + REVEAL_DELAY <= now)

\* the first failing require of the first version's claimSubdomain, or "ok"
ClaimResultV1(caller, parentNode, subdomain, expiry, nonce, merkleProof) ==
    LET cfg        == configs[parentNode]
        commitment == CommitHash(caller, subdomain, expiry, nonce)
        leaf       == LeafHash(caller, subdomain, expiry)
    IN  IF Entered THEN "ReentrancyGuardReentrantCall"
        ELSE IF paused THEN "paused"
        ELSE IF ~cfg.active THEN "Config not active"
        ELSE IF HolderMarked(caller) THEN "Already claimed"
        ELSE IF TooEarlyV1(CommitTime(commitment)) THEN "Too early"
        ELSE IF leaf \in claimed THEN "Already claimed"
        ELSE IF ~MerkleVerify(merkleProof, cfg.merkleRoot, leaf) THEN "Invalid proof"
        ELSE "ok"

\* the first version's claimSubdomain up to the external call: a failed require
\* reverts; on "ok" the commitment is deleted, the leaf, the holder and the count
\* are written and nameWrapper.setSubnodeRecord is running
claimSubdomainV1(caller, parentNode, subdomain, expiry, nonce, merkleProof) ==
    LET r          == ClaimResultV1(caller, parentNode, subdomain, expiry, nonce, merkleProof)
        commitment == CommitHash(caller, subdomain, expiry, nonce)
        leaf       == LeafHash(caller, subdomain, expiry)
        post       == IF r = "ok"
                      THEN WrittenByClaim("ok", caller, parentNode, commitment, leaf)
                      ELSE RolledBack(Ledger, Ledger)
    IN  /\ paused' = post.paused
        /\ configs' = post.configs
        /\ claimed' = post.claimed
        /\ hasClaimed' = post.hasClaimed
        /\ commitments' = post.commitments
        /\ IF r = "ok"
           THEN /\ status' = "ENTERED"
                /\ frame' = [ caller |-> caller, parentNode |-> parentNode,
                              subdomain |-> subdomain, expiry |-> expiry, pre |-> Ledger ]
                /\ last' = Outcome("claimSubdomain", "pending")
           ELSE /\ UNCHANGED <<status, frame>>
                /\ last' = Outcome("claimSubdomain", r)
        /\ UNCHANGED <<offchain, now, created>>

NextV1 ==
    \/ \E caller \in Identities : pause(caller)
    \/ \E caller \in Identities : unpause(caller)
    \/ \E i \in ConfigInputsV1 : initializeConfigV1(i[1], i[2], i[3], i[4], i[5])
    \/ \E caller \in Identities, c \in CommitInputsV1 : commitClaimV1(caller, c)
    \/ \E caller \in Identities, d \in Domains, l \in Labels, e \in Expiries,
          n \in Nonces, proof \in Proofs : claimSubdomainV1(caller, d, l, e, n, proof)
    \/ setSubnodeRecordReturns
    \/ setSubnodeRecordReverts
    \/ \E k \in 1..MaxTick : warp(k)

SpecV1 == Init /\ [][NextV1]_vars

(***************************************************************************)
(* The web client's claim form, components/ClaimSubdomain.jsx (ClientSpec) *)
(***************************************************************************)
\* what a holder types into the form: <<address, subdomain, expiry>>
FormInputs == { <<1, 1, 1>>, <<2, 2, 1>> }

\* commitments another tool submits for a holder, packed as the contract packs
ScriptCommitInputs == { CommitHash(1, 1, 1, 1) }

\* deployments the form is used against
ClientConfigInputs == { <<1, 1, RootA, 0, U256(0, 1)>> }

\* ethers.keccak256(AbiCoder.defaultAbiCoder().encode(['address', 'string',
\* 'uint64', 'uint256'], [...])): the digest of the ABI encoding, whose 32-byte
\* words are other bytes than the packed encoding of the same values
AbiEncodedKeccak256(address, subdomain, expiry, nonce) ==
    0 - CommitHash(address, subdomain, expiry, nonce)

\* handleAddressChange, handleSubdomainChange and the expiry field: the form is
\* filled in, and a proof or a commit held for other values is dropped
enterClaim(address, subdomain, expiry) ==
    /\ status = "NOT_ENTERED"
    /\ <<address, subdomain, expiry>> # <<client.address, client.subdomain, client.expiry>>
    /\ client' = [ NoClient EXCEPT !.address = address, !.subdomain = subdomain,
                                   !.expiry = expiry ]
    /\ UNCHANGED <<paused, configs, claimed, hasClaimed, commitments, status, frame, now,
                   created, last, merkleData, response, pending>>

\* handleGetProof: the proof the server answered with is kept with the form
handleGetProof(proof) ==
    /\ status = "NOT_ENTERED"
    /\ client.address # 0
    /\ ~isLeafClaimed(client.address, client.subdomain, client.expiry)
    /\ client' = [ client EXCEPT !.hasProof = TRUE, !.proof = proof ]
    /\ UNCHANGED <<paused, configs, claimed, hasClaimed, commitments, status, frame, now,
                   created, last, merkleData, response, pending>>

\* handleCommit: a nonce is drawn, the commitment is computed and sent with
\* commitClaim from the connected wallet; once the transaction is mined the nonce
\* and the commitment are kept and the form counts as committed
handleCommit(signer, nonce) ==
    LET commitment == AbiEncodedKeccak256(client.address, client.subdomain,
                                          client.expiry, nonce)
    IN  /\ client.hasProof
        /\ commitClaimCall(signer, commitment)
        /\ client' = IF CommitResult(commitment) = "ok"
                     THEN [ client EXCEPT !.nonce = nonce, !.commitment = commitment,
                                          !.committed = TRUE ]
                     ELSE client
        /\ UNCHANGED <<merkleData, response, pending>>

\* handleClaim: claimSubdomain is sent from the connected wallet with the form's
\* subdomain and expiry and the kept nonce and proof
handleClaim(signer, parentNode) ==
    /\ client.hasProof
    /\ client.committed
    /\ claimSubdomainCall(signer, parentNode, client.subdomain, client.expiry,
                          client.nonce, client.proof)
    /\ UNCHANGED <<merkleData, response, client, pending>>

\* handleClaim once the claim's receipt is in: the form is reset
claimConfirmed ==
    /\ status = "NOT_ENTERED"
    /\ last = Outcome("claimSubdomain", "ok")
    /\ client.committed
    /\ client' = NoClient
    /\ UNCHANGED <<paused, configs, claimed, hasClaimed, commitments, status, frame, now,
                   created, last, merkleData, response, pending>>

ClientNext ==
    \/ \E i \in ClientConfigInputs : initializeConfig(i[1], i[2], i[3], i[4], i[5])
    \/ \E f \in FormInputs : enterClaim(f[1], f[2], f[3])
    \/ \E proof \in Proofs : handleGetProof(proof)
    \/ \E signer \in Identities, nonce \in Nonces : handleCommit(signer, nonce)
    \/ \E signer \in Identities, d \in Domains : handleClaim(signer, d)
    \/ claimConfirmed
    \/ \E caller \in Identities, c \in ScriptCommitInputs : commitClaim(caller, c)
    \/ setSubnodeRecordReturns
    \/ setSubnodeRecordReverts
    \/ \E k \in 1..MaxTick : warp(k)

ClientSpec == Init /\ [][ClientNext]_vars

(***************************************************************************)
(* Proof server: strings of a request and their conversions                *)
(***************************************************************************)
\* most rows in an uploaded CSV
MaxRows == 3

\* an address string: the account it spells (0: no address at all) and its case
AddressStrings ==
    { [account |-> 1, form |-> "lower"], [account |-> 2, form |-> "mixed"],
      [account |-> 2, form |-> "lower"], [account |-> 0, form |-> "lower"] }
\* a label string: the label, and whether blanks surround it
LabelStrings == { [label |-> l, padded |-> p] : l \in Labels, p \in BOOLEAN }
\* an expiry string: its leading digits (0: none) and whether other text follows;
\* neither is the empty string
ExpiryStrings ==
    { [digits |-> 1, junk |-> FALSE], [digits |-> 2, junk |-> FALSE],
      [digits |-> 2, junk |-> TRUE], [digits |-> 0, junk |-> TRUE] }

\* address.toLowerCase().trim()
LowerTrim(address) == [address EXCEPT !.form = "lower"]
\* ethers.isAddress
isAddress(address) == address.account # 0
\* subdomain.trim()
Trim(subdomain) == [subdomain EXCEPT !.padded = FALSE]
\* parseInt: the leading digits, NaN when there are none
parseInt(expiry) == [nan |-> expiry.digits = 0, value |-> expiry.digits]

\* the types of claimSubdomain's abi.encodePacked(msg.sender, subdomain, expiry)
ContractTypes == << "address", "string", "uint64" >>

\* a packing that encodes the expiry as a 256-bit word
WideTypes == << "address", "string", "uint256" >>

\* the types the proof server packs a record with
LeafTypes == << "address", "string", "uint64" >>

\* ethers.solidityPackedKeccak256 rejects what it cannot encode
PackingThrows(address, expiry) == ~isAddress(address) \/ expiry.nan

\* ethers.solidityPackedKeccak256(types, [address, subdomain, expiry]): the digest
\* the contract forms for the same bytes; other encodings have digests of their own
solidityPackedKeccak256(types, address, subdomain, expiry) ==
    IF types = ContractTypes /\ ~subdomain.padded
    THEN LeafHash(address.account, subdomain.label, expiry.value)
    ELSE 0 - ( 1 + RecordIndex(address.account, subdomain.label, expiry.value)
                 + (IF subdomain.padded THEN NumRecords ELSE 0)
                 + (IF types = ContractTypes THEN 0 ELSE 2 * NumRecords) )

(***************************************************************************)
(* Proof server: merkletreejs with sortLeaves and sortPairs                *)
(***************************************************************************)
RECURSIVE Insert(_, _)
Insert(x, sorted) ==
    IF sorted = <<>> THEN << x >>
    ELSE IF x <= Head(sorted) THEN << x >> \o sorted
    ELSE << Head(sorted) >> \o Insert(x, Tail(sorted))

\* a tree built on the leaves in the order given
UnsortedLeaves(leaves) == leaves

RECURSIVE SortedLeaves(_)
\* sortLeaves: the leaves in ascending order
SortedLeaves(leaves) ==
    IF leaves = <<>> THEN <<>> ELSE Insert(Head(leaves), SortedLeaves(Tail(leaves)))

\* a layer above in which an odd last node is hashed with itself
NextLayerDuplicatingOdd(nodes) ==
    [ i \in 1 .. ((Len(nodes) + 1) \div 2) |->
        IF 2 * i <= Len(nodes) THEN HashPair(nodes[2 * i - 1], nodes[2 * i])
        ELSE HashPair(nodes[2 * i - 1], nodes[2 * i - 1]) ]

\* the layer above: each pair hashed in sorted order, an odd last node carried up
NextLayer(nodes) ==
    [ i \in 1 .. ((Len(nodes) + 1) \div 2) |->
        IF 2 * i <= Len(nodes) THEN HashPair(nodes[2 * i - 1], nodes[2 * i])
        ELSE nodes[2 * i - 1] ]

RECURSIVE createHashes(_)
\* the layers are built until one node is left: the top of the tree
createHashes(nodes) ==
    IF Len(nodes) = 1 THEN nodes[1] ELSE createHashes(NextLayer(nodes))

\* a root that hashes a lone leaf with itself
getHexRootHashingLoneLeaf(leaves) ==
    IF Len(leaves) = 1 THEN HashPair(leaves[1], leaves[1]) ELSE createHashes(leaves)

\* tree.getHexRoot() of the tree on these (sorted) leaves
getHexRoot(leaves) == createHashes(leaves)

RECURSIVE ProofAt(_, _)
\* the siblings on the path from position index up to the root
ProofAt(nodes, index) ==
    IF Len(nodes) = 1 THEN <<>>
    ELSE LET sibling == IF index % 2 = 1 THEN index + 1 ELSE index - 1
             above   == ProofAt(NextLayer(nodes), (index + 1) \div 2)
         IN  IF sibling <= Len(nodes) THEN << nodes[sibling] >> \o above ELSE above

\* positions of a value in a sequence
PositionsOf(x, seq) == { i \in 1 .. Len(seq) : seq[i] = x }

(***************************************************************************)
(* Proof server: generateTree and getProof                                 *)
(***************************************************************************)
\* rows of the uploaded CSVs
RowPool ==
    { [ address   |-> [account |-> 1, form |-> "lower"],
        subdomain |-> [label |-> 1, padded |-> FALSE],
        expiry    |-> [digits |-> 1, junk |-> FALSE] ],
      [ address   |-> [account |-> 2, form |-> "mixed"],
        subdomain |-> [label |-> 2, padded |-> TRUE],
        expiry    |-> [digits |-> 1, junk |-> FALSE] ],
      [ address   |-> [account |-> 2, form |-> "lower"],
        subdomain |-> [label |-> 1, padded |-> FALSE],
        expiry    |-> [digits |-> 2, junk |-> TRUE] ],
      [ address   |-> [account |-> 0, form |-> "lower"],
        subdomain |-> [label |-> 1, padded |-> FALSE],
        expiry    |-> [digits |-> 1, junk |-> FALSE] ],
      [ address   |-> [account |-> 1, form |-> "lower"],
        subdomain |-> [label |-> 2, padded |-> FALSE],
        expiry    |-> [digits |-> 0, junk |-> TRUE] ],
      [ address   |-> [account |-> 1, form |-> "lower"],
        subdomain |-> [label |-> 2, padded |-> FALSE],
        expiry    |-> [digits |-> 0, junk |-> FALSE] ] }

RECURSIVE SeqsUpTo(_, _)
SeqsUpTo(S, n) ==
    IF n = 0 THEN { <<>> }
    ELSE LET shorter == SeqsUpTo(S, n - 1)
         IN  shorter \cup { Append(p, x) : p \in shorter, x \in S }

\* req.file: absent, or a CSV of up to MaxRows rows
Uploads ==
    { [present |-> FALSE, rows |-> <<>>] }
        \cup { [present |-> TRUE, rows |-> r] : r \in SeqsUpTo(RowPool, MaxRows) }

\* the 'data' handler keeps a row that has its three fields and whose address is one
RowKept(row) ==
    /\ row.expiry.digits # 0 \/ row.expiry.junk
    /\ isAddress(LowerTrim(row.address))

\* the row as pushed: cleaned address, trimmed subdomain, parsed expiry
CleanRow(row) ==
    [ address   |-> LowerTrim(row.address),
      subdomain |-> Trim(row.subdomain),
      expiry    |-> parseInt(row.expiry) ]

RECURSIVE ProcessedRows(_)
\* processedRows: the kept rows, cleaned, in file order
ProcessedRows(rows) ==
    IF rows = <<>> THEN <<>>
    ELSE IF RowKept(Head(rows))
         THEN << CleanRow(Head(rows)) >> \o ProcessedRows(Tail(rows))
         ELSE ProcessedRows(Tail(rows))

\* the leaf of each processed row
LeavesOf(records) ==
    [ i \in 1 .. Len(records) |->
        solidityPackedKeccak256(LeafTypes, records[i].address, records[i].subdomain,
                                records[i].expiry) ]

\* the HTTP status generateTree answers with
GenerateStatus(file) ==
    LET records == ProcessedRows(file.rows) IN
    IF ~file.present THEN 400
    ELSE IF records = <<>> THEN 400
    ELSE IF \E i \in 1 .. Len(records) :
               PackingThrows(records[i].address, records[i].expiry) THEN 500
    ELSE 200

\* merkleData after a successful generateTree
BuiltFrom(records) ==
    LET leaves == LeavesOf(records)
        tree   == SortedLeaves(leaves)
    IN  [ tree |-> tree, leaves |-> leaves, records |-> records, root |-> getHexRoot(tree) ]

generateTree(file) ==
    LET st == GenerateStatus(file) IN
    /\ merkleData' = IF st = 200 THEN BuiltFrom(ProcessedRows(file.rows)) ELSE merkleData
    /\ response' = [ NoResponse EXCEPT !.op = "generateTree", !.status = st,
                                       !.merkleRoot = IF st = 200 THEN merkleData'.root ELSE 0 ]
    /\ UNCHANGED <<paused, configs, claimed, hasClaimed, commitments, status, frame, now,
                   created, last, client, pending>>

\* the leaf getProof looks up
RequestLeaf(address, subdomain, expiry) ==
    solidityPackedKeccak256(LeafTypes, LowerTrim(address), subdomain, parseInt(expiry))

\* a getProof that answers 404 whatever is wrong with the request
ProofStatusAllNotFound(address, subdomain, expiry) ==
    IF merkleData.tree = <<>> THEN 404
    ELSE IF PackingThrows(LowerTrim(address), parseInt(expiry)) THEN 404
    ELSE IF PositionsOf(RequestLeaf(address, subdomain, expiry), merkleData.leaves) = {}
         THEN 404
    ELSE 200

\* the HTTP status getProof answers with
ProofStatus(address, subdomain, expiry) ==
    IF merkleData.tree = <<>> THEN 400
    ELSE IF PackingThrows(LowerTrim(address), parseInt(expiry)) THEN 500
    ELSE IF PositionsOf(RequestLeaf(address, subdomain, expiry), merkleData.leaves) = {}
         THEN 404
    ELSE 200

\* tree.getHexProof(leaf): the path from a position that holds the leaf
getProof(address, subdomain, expiry) ==
    LET st   == ProofStatus(address, subdomain, expiry)
        leaf == RequestLeaf(address, subdomain, expiry)
    IN  /\ IF st = 200
           THEN \E index \in PositionsOf(leaf, merkleData.tree) :
                   response' = [ op |-> "getProof", status |-> 200, leaf |-> leaf,
                                 proof |-> ProofAt(merkleData.tree, index),
                                 merkleRoot |-> merkleData.root ]
           ELSE response' = [ NoResponse EXCEPT !.op = "getProof", !.status = st ]
        /\ UNCHANGED <<paused, configs, claimed, hasClaimed, commitments, status, frame,
                       now, created, last, merkleData, client, pending>>

TreeNext ==
    \/ \E file \in Uploads : generateTree(file)
    \/ \E address \in AddressStrings, subdomain \in LabelStrings,
          expiry \in ExpiryStrings : getProof(address, subdomain, expiry)

TreeSpec == Init /\ [][TreeNext]_vars

(***************************************************************************)
(* Proof server under concurrent requests (RaceSpec): generateTree gives   *)
(* up control once, at `await processCSV`, while its stream delivers rows; *)
(* every other statement of the two handlers runs without interruption.    *)
(***************************************************************************)
\* how many generateTree requests may be reading their CSV at the same time
MaxInFlight == 2

\* a CSV row from its three strings
Row(account, form, label, padded, digits, junk) ==
    [ address   |-> [account |-> account, form |-> form],
      subdomain |-> [label |-> label, padded |-> padded],
      expiry    |-> [digits |-> digits, junk |-> junk] ]

\* the uploads sent concurrently: no file; an empty CSV; a CSV whose only row has
\* no valid address; one record; two records; a record whose expiry is no number;
\* and a file whose stream fails while it is read
RaceUploads ==
    { [present |-> FALSE, readable |-> TRUE, rows |-> <<>>],
      [present |-> TRUE,  readable |-> TRUE, rows |-> <<>>],
      [present |-> TRUE,  readable |-> TRUE,
       rows |-> << Row(0, "lower", 1, FALSE, 1, FALSE) >>],
      [present |-> TRUE,  readable |-> TRUE,
       rows |-> << Row(1, "lower", 1, FALSE, 1, FALSE) >>],
      [present |-> TRUE,  readable |-> TRUE,
       rows |-> << Row(2, "mixed", 2, TRUE, 1, FALSE), Row(1, "lower", 1, FALSE, 1, FALSE) >>],
      [present |-> TRUE,  readable |-> TRUE,
       rows |-> << Row(1, "lower", 2, FALSE, 0, TRUE) >>],
      [present |-> TRUE,  readable |-> FALSE,
       rows |-> << Row(2, "lower", 2, FALSE, 1, FALSE), Row(1, "lower", 1, FALSE, 1, FALSE) >>] }

\* the getProof requests sent concurrently: <<address, subdomain, expiry>>
RaceLookups ==
    { << [account |-> 1, form |-> "lower"], [label |-> 1, padded |-> FALSE],
         [digits |-> 1, junk |-> FALSE] >>,
      << [account |-> 2, form |-> "mixed"], [label |-> 2, padded |-> FALSE],
         [digits |-> 1, junk |-> FALSE] >>,
      << [account |-> 1, form |-> "lower"], [label |-> 1, padded |-> FALSE],
         [digits |-> 0, junk |-> TRUE] >> }

\* the request slots that are free
FreeSlots == (1 .. MaxInFlight) \ { req.id : req \in pending }

\* generateTree up to `await processCSV`: without a file it answers 400 at once,
\* otherwise the request starts reading with its own empty rows array
generateTreeAwaits(file) ==
    /\ IF ~file.present
       THEN /\ response' = [ NoResponse EXCEPT !.op = "generateTree", !.status = 400 ]
            /\ pending' = pending
       ELSE /\ FreeSlots # {}
            /\ pending' = pending \cup
                  { [ id |-> CHOOSE k \in FreeSlots : \A j \in FreeSlots : k <= j,
                      file |-> file, read |-> 0, rows |-> <<>> ] }
            /\ response' = response
    /\ UNCHANGED <<paused, configs, claimed, hasClaimed, commitments, status, frame, now,
                   created, last, merkleData, client>>

\* a 'data' event of one request's stream: the row is validated, cleaned and pushed
processCSVData(req) ==
    /\ req \in pending
    /\ req.read < Len(req.file.rows)
    /\ LET row == req.file.rows[req.read + 1] IN
       pending' = (pending \ {req}) \cup
          { [ req EXCEPT !.read = @ + 1,
                         !.rows = IF RowKept(row) THEN Append(@, CleanRow(row)) ELSE @ ] }
    /\ UNCHANGED <<paused, configs, claimed, hasClaimed, commitments, status, frame, now,
                   created, last, merkleData, response, client>>

\* the HTTP status generateTree answers with once processCSV has resolved
ResumeStatus(processedRows) ==
    IF processedRows = <<>> THEN 400
    ELSE IF \E i \in 1 .. Len(processedRows) :
               PackingThrows(processedRows[i].address, processedRows[i].expiry) THEN 500
    ELSE 200

\* a generateTree that empties the stored data when it fails
StoredAfterClearing(st, processedRows) ==
    IF st = 200 THEN BuiltFrom(processedRows) ELSE NoMerkleData

\* a generateTree that stores the new tree under the root it finds stored
StoredTorn(st, processedRows) ==
    IF st = 200 THEN [ BuiltFrom(processedRows) EXCEPT !.root = merkleData.root ]
    ELSE merkleData

\* merkleData once generateTree has answered with st: the one assignment
\* merkleData = { tree, leaves, records, root } is reached only on success
StoredAfter(st, processedRows) ==
    IF st = 200 THEN BuiltFrom(processedRows) ELSE merkleData

\* the 'end' event: processCSV resolves with the request's rows and generateTree
\* runs to its end
processCSVEnd(req) ==
    LET st == ResumeStatus(req.rows) IN
    /\ req \in pending
    /\ req.file.readable
    /\ req.read = Len(req.file.rows)
    /\ merkleData' = StoredAfter(st, req.rows)
    /\ response' = [ NoResponse EXCEPT !.op = "generateTree", !.status = st,
                                       !.merkleRoot = IF st = 200 THEN merkleData'.root ELSE 0 ]
    /\ pending' = pending \ {req}
    /\ UNCHANGED <<paused, configs, claimed, hasClaimed, commitments, status, frame, now,
                   created, last, client>>

\* the 'error' event: processCSV rejects and the catch block answers 500
processCSVError(req) ==
    /\ req \in pending
    /\ ~req.file.readable
    /\ merkleData' = StoredAfter(500, req.rows)
    /\ response' = [ NoResponse EXCEPT !.op = "generateTree", !.status = 500 ]
    /\ pending' = pending \ {req}
    /\ UNCHANGED <<paused, configs, claimed, hasClaimed, commitments, status, frame, now,
                   created, last, client>>

RaceNext ==
    \/ \E file \in RaceUploads : generateTreeAwaits(file)
    \/ \E req \in pending : processCSVData(req)
    \/ \E req \in pending : processCSVEnd(req)
    \/ \E req \in pending : processCSVError(req)
    \/ \E q \in RaceLookups : getProof(q[1], q[2], q[3])

RaceSpec == Init /\ [][RaceNext]_vars

(***************************************************************************)
(* Properties                                                              *)
(***************************************************************************)
\* every claimSubdomain call a caller can make
ClaimInputs == Identities \X Domains \X Labels \X Expiries \X Nonces \X Proofs

ResultOf(i) == ClaimResult(i[1], i[2], i[3], i[4], i[5], i[6])

RECURSIVE CopiesOver(_)
\* how many create calls the registrar completed for the records in S
CopiesOver(S) ==
    IF S = {} THEN 0
    ELSE LET r == CHOOSE x \in S : TRUE
         IN  CopiesIn(r, created) + CopiesOver(S \ {r})

\* completed create calls with owner h, and for a leaf
CreatesBy(h) == CopiesOver({ r \in BagToSet(created) : r[3] = h })
CreatesOf(leaf) == CopiesOver({ r \in BagToSet(created) : LeafHash(r[3], r[2], r[4]) = leaf })

InFlight == status = "ENTERED"
\* the claim whose create call is running, counted for its holder and its leaf
PendingBy(h) == IF InFlight /\ frame.caller = h THEN 1 ELSE 0
PendingOf(leaf) ==
    IF InFlight /\ LeafHash(frame.caller, frame.subdomain, frame.expiry) = leaf
    THEN 1 ELSE 0

AllLeaves == { LeafHash(h, l, e) : h \in Identities, l \in Labels, e \in Expiries }

\* the checks claimSubdomain makes before it looks at hasClaimed
BeforeHolderCheck == { "ReentrancyGuardReentrantCall", "ContractIsPaused", "ConfigNotActive" }

\* C1: no holder has more than one claim that passed (completed or with its
\* create call running), over all domains; and a claimSubdomain by a caller whose
\* hasClaimed flag is set never passes, whatever label, expiry, nonce, proof or
\* parent it names: it ends with AlreadyClaimed unless the reentrancy guard, the
\* pause or an inactive config stopped it first.
C1_HolderClaimsOnce ==
    /\ \A h \in Identities : CreatesBy(h) + PendingBy(h) <= 1
    /\ \A i \in ClaimInputs :
          i[1] \in hasClaimed =>
              ResultOf(i) \in BeforeHolderCheck \cup { "AlreadyClaimed" }

\* a holder with a completed claim has just been refused a further claim
C1_Witness ==
    /\ last = Outcome("claimSubdomain", "AlreadyClaimed")
    /\ \E h \in hasClaimed : CreatesBy(h) = 1
    /\ \E d1, d2 \in Domains : d1 # d2 /\ configs[d1].active /\ configs[d2].active

\* C2: every leaf has at most one claim that passed (completed or with its create
\* call running), counted over all domains, so the registrar never gets a second
\* create call for it; and no claimSubdomain for a leaf marked claimed passes.
C2_LeafRedeemedOnce ==
    /\ \A leaf \in AllLeaves : CreatesOf(leaf) + PendingOf(leaf) <= 1
    /\ \A i \in ClaimInputs :
          LeafHash(i[1], i[3], i[4]) \in claimed => ResultOf(i) # "ok"

\* a leaf of tree A is claimed and created once while both domains carry root A,
\* and a further claim has been refused
C2_Witness ==
    /\ \E leaf \in claimed : CreatesOf(leaf) = 1
    /\ \A d \in Domains : configs[d].active /\ configs[d].merkleRoot = RootA
    /\ last.op = "claimSubdomain"
    /\ last.result \in { "AlreadyClaimed", "SubdomainAlreadyClaimed" }

\* the blinding hash and the leaf a claimSubdomain call computes
CommitOf(i) == CommitHash(i[1], i[3], i[4], i[5])
LeafOf(i) == LeafHash(i[1], i[3], i[4])

\* results of the checks made before the timing check
BeforeTimingCheck == BeforeHolderCheck \cup { "AlreadyClaimed", "ExpiryExceedsParent" }

\* the commit time of a digest that was written in this step, if any
NewlyTimed(c) == commitments'[c] # 0 /\ commitments'[c] # commitments[c]

\* C3: a claimSubdomain passes the timing check only when a commit time is
\* recorded for hash(caller, label, expiry, nonce) and now is at least that time
\* plus REVEAL_DELAY; a call that reaches the timing check earlier, or with no
\* commit time recorded, ends with RevealTooEarly; at exactly commit time plus
\* REVEAL_DELAY it goes on to the leaf and proof checks; and a commit time is
\* recorded only by an accepted commitClaim, as the block time of that call (or
\* put back, as it was, by a reverted claim).
C3_RevealAfterDelay ==
    /\ [](\A i \in ClaimInputs :
            LET t == CommitTime(CommitOf(i))
                r == ResultOf(i)
            IN  /\ PassedTiming(r) => t # 0 /\ now >= t + REVEAL_DELAY
                /\ (r \notin BeforeTimingCheck /\ (t = 0 \/ now < t + REVEAL_DELAY))
                       => r = "RevealTooEarly"
                /\ (r \notin BeforeTimingCheck /\ t # 0 /\ now = t + REVEAL_DELAY)
                       => PassedTiming(r))
    /\ [][\A c \in CommitInputs :
            NewlyTimed(c) =>
                \/ last' = Outcome("commitClaim", "ok") /\ commitments'[c] = now
                \/ /\ last' = Outcome("claimSubdomain", "RegistrarReverted")
                   /\ commitments'[c] = frame.pre.commitments[c]]_vars

\* a claim made exactly REVEAL_DELAY after its commitment has passed every check
\* while another commitment is still inside its delay
C3_Witness ==
    /\ InFlight
    /\ \E c \in CommitInputs :
          /\ frame.pre.commitments[c] # 0
          /\ commitments[c] = 0
          /\ frame.pre.commitments[c] + REVEAL_DELAY = now
    /\ \E c \in CommitInputs : commitments[c] # 0 /\ commitments[c] + REVEAL_DELAY > now

\* the entitlement set a root commits to
Members(root) ==
    IF root = RootA THEN { LeafHash(1, 1, 1), LeafHash(2, 2, 1) }
    ELSE IF root = RootB THEN { LeafHash(2, 1, 2) }
    ELSE {}

\* results of the checks made before the proof check
BeforeProofCheck == BeforeTimingCheck \cup { "RevealTooEarly", "SubdomainAlreadyClaimed" }

\* the create calls made: completed, and the one running
CreatesMade == BagToSet(created) \cup (IF InFlight THEN { PendingCreate } ELSE {})

\* C4: a claimSubdomain passes only with a proof that folds its leaf
\* hash(caller, label, expiry) into exactly the root stored for the parent
\* node, and only for a leaf of the set that root commits to; a call that
\* reaches the proof check with a leaf outside that set ends with
\* InvalidMerkleProof; and every create call the registrar got is for a leaf of
\* the set its parent node's root commits to.
C4_ProofAgainstStoredRoot ==
    /\ \A i \in ClaimInputs :
          LET root == configs[i[2]].merkleRoot IN
          /\ ResultOf(i) = "ok" =>
                 ProcessProof(i[6], LeafOf(i)) = root /\ LeafOf(i) \in Members(root)
          /\ (ResultOf(i) \notin BeforeProofCheck /\ LeafOf(i) \notin Members(root))
                 => ResultOf(i) = "InvalidMerkleProof"
    /\ \A r \in CreatesMade :
          LeafHash(r[3], r[2], r[4]) \in Members(configs[r[1]].merkleRoot)

\* a claim with a leaf outside the root's set was refused for its proof, after
\* a claim of a member was created and with the outsider's commitment still ripe
C4_Witness ==
    /\ last = Outcome("claimSubdomain", "InvalidMerkleProof")
    /\ created # EmptyBag
    /\ \E i \in ClaimInputs :
          /\ ResultOf(i) = "InvalidMerkleProof"
          /\ LeafOf(i) \notin Members(configs[i[2]].merkleRoot)

\* C5 (as claimed): between transactions every active domain's claimedCount is at
\* most its totalSubdomains.
C5_CountWithinTotal ==
    status = "NOT_ENTERED" =>
        \A d \in Domains :
            configs[d].active => configs[d].claimedCount <= configs[d].totalSubdomains

\* the errors of claimSubdomain's own checks, the reentrancy guard aside
ClaimErrors ==
    { "ContractIsPaused", "ConfigNotActive", "AlreadyClaimed", "ExpiryExceedsParent",
      "RevealTooEarly", "SubdomainAlreadyClaimed", "InvalidMerkleProof" }

\* C6: a claimSubdomain call that ends with any of its errors leaves the
\* commitments, the claimed leaves, the claimed holders, the configs and the
\* pause flag exactly as they were before the call, and makes no create call.
C6_FailedClaimChangesNothing ==
    [][(last'.op = "claimSubdomain" /\ last'.result \in ClaimErrors)
          => (Ledger' = Ledger /\ created' = created)]_vars

\* a claim was refused at the proof check, after its commitment passed the timing
\* check, and the same call would be refused at the proof check again
C6_Witness ==
    /\ last = Outcome("claimSubdomain", "InvalidMerkleProof")
    /\ \E i \in ClaimInputs :
          /\ ResultOf(i) = "InvalidMerkleProof"
          /\ CommitTime(CommitOf(i)) # 0
          /\ CommitTime(CommitOf(i)) + REVEAL_DELAY <= now

\* completed create calls under a parent node
CreatesIn(d) == CopiesOver({ r \in BagToSet(created) : r[1] = d })

\* every check of claimSubdomain, evaluated on the storage the running claim found
FramePassedChecks ==
    LET pre  == frame.pre
        cfg  == pre.configs[frame.parentNode]
        leaf == LeafHash(frame.caller, frame.subdomain, frame.expiry)
    IN  /\ ~pre.paused
        /\ cfg.active
        /\ frame.caller \notin pre.hasClaimed
        /\ frame.expiry <= ParentExpiry(frame.parentNode)
        /\ \E n \in Nonces :
              LET c == CommitHash(frame.caller, frame.subdomain, frame.expiry, n) IN
              /\ c \in DOMAIN pre.commitments
              /\ pre.commitments[c] # 0
              /\ pre.commitments[c] + REVEAL_DELAY <= now
        /\ leaf \notin pre.claimed
        /\ \E proof \in Proofs : ProcessProof(proof, leaf) = cfg.merkleRoot

\* C7: setSubnodeRecord runs only for a claim that passed every check on the
\* storage it found; when it reverts, storage is what the claim found (leaf and
\* holder unmarked, claimedCount as before, the commitment recorded) and nothing
\* is created; so between transactions every marked leaf and every marked holder
\* has its subdomain created, and claimedCount is the number created.
C7_RegistrarFailureAbortsClaim ==
    /\ [](InFlight => FramePassedChecks)
    /\ [][(status = "ENTERED" /\ last'.result = "RegistrarReverted")
             => (Ledger' = frame.pre /\ created' = created)]_vars
    /\ [](status = "NOT_ENTERED" =>
             /\ \A leaf \in claimed : CreatesOf(leaf) = 1
             /\ \A h \in hasClaimed : CreatesBy(h) = 1
             /\ \A d \in Domains : configs[d].claimedCount = CreatesIn(d))

\* the registrar has just failed a claim: nothing is marked or created, and the
\* claim's commitment is recorded and ripe, so the same claim would pass again
C7_Witness ==
    /\ last = Outcome("claimSubdomain", "RegistrarReverted")
    /\ claimed = {} /\ hasClaimed = {} /\ created = EmptyBag
    /\ \E i \in ClaimInputs : ResultOf(i) = "ok"

\* the running claim counted under its parent node
PendingIn(d) == IF InFlight /\ frame.parentNode = d THEN 1 ELSE 0

\* C8: while setSubnodeRecord runs, every claimSubdomain call, by any caller,
\* ends with ReentrancyGuardReentrantCall and changes nothing; storage is what
\* the running claim found plus that one claim's leaf, holder and count; and no
\* holder, no leaf is redeemed twice, and claimedCount counts each claim once.
C8_NoReentrantClaim ==
    /\ [](InFlight =>
             /\ \A i \in ClaimInputs : ResultOf(i) = "ReentrancyGuardReentrantCall"
             /\ LET leaf == LeafHash(frame.caller, frame.subdomain, frame.expiry)
                    pre  == frame.pre
                IN  /\ leaf \notin pre.claimed /\ claimed = pre.claimed \cup { leaf }
                    /\ frame.caller \notin pre.hasClaimed
                    /\ hasClaimed = pre.hasClaimed \cup { frame.caller }
                    /\ configs = [pre.configs EXCEPT
                                     ![frame.parentNode].claimedCount = @ + 1])
    /\ [][(status = "ENTERED" /\ status' = "ENTERED")
             => (Ledger' = Ledger /\ created' = created /\ frame' = frame)]_vars
    /\ [](/\ \A h \in Identities : CreatesBy(h) + PendingBy(h) = IF h \in hasClaimed THEN 1 ELSE 0
          /\ \A leaf \in AllLeaves :
                CreatesOf(leaf) + PendingOf(leaf) = IF leaf \in claimed THEN 1 ELSE 0
          /\ \A d \in Domains : configs[d].claimedCount = CreatesIn(d) + PendingIn(d))

\* a nested claimSubdomain has just been refused while a second holder's create
\* call runs
C8_Witness ==
    /\ InFlight
    /\ last = Outcome("claimSubdomain", "ReentrancyGuardReentrantCall")
    /\ created # EmptyBag

\* C9 (as claimed): from pause() to unpause() the commitments, the claimed
\* leaves, the claimed holders and the configs stay as they were.
C9_PauseFreezesLedger ==
    [][(paused \/ paused')
          => /\ commitments' = commitments
             /\ claimed' = claimed
             /\ hasClaimed' = hasClaimed
             /\ configs' = configs]_vars

\* C10: the paused flag changes only in a pause() or unpause() call made by the
\* owner; a pause() or unpause() by any other caller ends with
\* OwnableUnauthorizedAccount and changes nothing.
C10_OnlyOwnerPauses ==
    /\ [][paused' # paused
             => /\ last'.op \in { "pause", "unpause" }
                /\ last'.caller = owner
                /\ last'.result = "ok"]_vars
    /\ [][(last'.op \in { "pause", "unpause" } /\ last'.caller # owner)
             => /\ last'.result = "OwnableUnauthorizedAccount"
                /\ Ledger' = Ledger
                /\ created' = created /\ status' = status /\ frame' = frame]_vars

\* another caller's unpause() has just been refused and the contract, paused by
\* the owner, stays paused
C10_Witness ==
    /\ last = AdminOutcome("unpause", 2, "OwnableUnauthorizedAccount")
    /\ paused

\* every result the read-only queries return in the current state
Views ==
    [ stats  |-> [d \in Domains |-> getConfigStats(d)],
      leaf   |-> [r \in Identities \X Labels \X Expiries |->
                     isLeafClaimed(r[1], r[2], r[3])],
      proof  |-> [q \in Domains \X Identities \X Labels \X Expiries \X Proofs |->
                     verifyMerkleProof(q[1], q[2], q[3], q[4], q[5])],
      time   |-> [c \in CommitInputs |-> getCommitmentTimestamp(c)],
      reveal |-> [c \in CommitInputs |-> canRevealCommitment(c)] ]

AnyRoots == { 0, RootA, RootB }
AnyTotals == { U256(0, 0), U256(0, 1), U256(1, 0) }

C13_ActiveConfigNonZero ==
    \A d \in Domains :
        configs[d].active =>
            configs[d].merkleRoot # 0 /\ configs[d].totalSubdomains # 0

\* C14 (as claimed): a successful initializeConfig leaves getConfigStats of its
\* parent node reporting the total it was given, no claims, its caller as owner
\* and active, for some request that initializeConfig accepts.
C14_StatsReportArguments ==
    [][(last' = Outcome("initializeConfig", "ok") /\ configs' # configs)
          => \E i \in ConfigInputs :
                /\ InitializeResult(i[2], i[3], i[5]) = "ok"
                /\ configs'[i[2]] # configs[i[2]]
                /\ getConfigStats(i[2])' =
                      [ total |-> i[5], claimedTotal |-> U256(0, 0),
                        owner |-> i[1], active |-> TRUE ]]_vars

\* C15 (as claimed): the recorded parentOwner of every active config is the
\* registrar's owner of that parent node.
C15_OnlyParentOwnerConfigures ==
    \A d \in Domains : configs[d].active => configs[d].parentOwner = ownerOf(d)

\* C16 (as claimed): a commitClaim never changes the recorded time of a
\* commitment that is already recorded.
C16_CommitKeepsRecordedTime ==
    [][last'.op = "commitClaim"
          => \A c \in CommitInputs :
                commitments[c] # 0 => commitments'[c] = commitments[c]]_vars

\* a claimSubdomain passes its checks in this step
ClaimPasses == status = "NOT_ENTERED" /\ status' = "ENTERED"

\* C17 (as claimed): a revealable commitment stays revealable in every step that
\* is not a passing claimSubdomain consuming it.
C17_RevealableStaysRevealable ==
    [][\A c \in CommitInputs :
          canRevealCommitment(c) =>
              \/ canRevealCommitment(c)'
              \/ ClaimPasses /\ commitments'[c] = 0]_vars

\* the steps of one transaction between block-time changes that end a commitClaim
CommitStep(result) == last' = Outcome("commitClaim", result) /\ now' = now

\* C18: commitClaim is accepted exactly when the contract is not paused and the
\* hash is non-zero, whatever configs exist and whoever calls; it ends with
\* ContractIsPaused when paused and with InvalidParameters for the zero hash
\* otherwise; an accepted call sets one non-zero hash's entry to the block time
\* and changes nothing else, and a refused call changes nothing.
C18_CommitAcceptance ==
    /\ [](\A c \in CommitInputs :
             CommitResult(c) = IF paused THEN "ContractIsPaused"
                               ELSE IF c = 0 THEN "InvalidParameters" ELSE "ok")
    /\ [][CommitStep("ok") =>
             /\ ~paused
             /\ \E c \in CommitInputs \ {0} :
                   commitments' = [commitments EXCEPT ![c] = now]
             /\ commitments'[0] = 0
             /\ <<paused, configs, claimed, hasClaimed, created, status>>'
                    = <<paused, configs, claimed, hasClaimed, created, status>>]_vars
    /\ [][(CommitStep("ContractIsPaused") \/ CommitStep("InvalidParameters"))
             => (Ledger' = Ledger /\ created' = created)]_vars

\* a commitment has just been accepted although no parent node has a config
C18_Witness ==
    /\ last = Outcome("commitClaim", "ok")
    /\ \A d \in Domains : ~configs[d].active
    /\ \E c \in CommitInputs : commitments[c] = now

\* C19: canRevealCommitment(c) is true exactly when a commit time is recorded
\* for c and at least REVEAL_DELAY has passed since, which is exactly when
\* claimSubdomain's timing check lets c through; it is false right after an
\* accepted commitClaim(c); and getCommitmentTimestamp(c) turns non-zero only in
\* an accepted commitClaim (or when a reverted claim puts it back) and turns
\* zero only when a claimSubdomain that passes its checks consumes it.
C19_CanRevealIffRecordedAndRipe ==
    /\ [](\A c \in CommitInputs :
             /\ canRevealCommitment(c)
                    <=> (commitments[c] # 0 /\ now - commitments[c] >= REVEAL_DELAY)
             /\ canRevealCommitment(c) <=> ~TooEarly(CommitTime(c))
             /\ getCommitmentTimestamp(c) = commitments[c])
    /\ [][CommitStep("ok") =>
             \A c \in CommitInputs : commitments'[c] = now => ~canRevealCommitment(c)']_vars
    /\ [][\A c \in CommitInputs :
             /\ (getCommitmentTimestamp(c) = 0 /\ getCommitmentTimestamp(c)' # 0)
                    => \/ CommitStep("ok")
                       \/ last' = Outcome("claimSubdomain", "RegistrarReverted")
             /\ (getCommitmentTimestamp(c) # 0 /\ getCommitmentTimestamp(c)' = 0)
                    => ClaimPasses]_vars

\* one commitment is revealable exactly REVEAL_DELAY after it was made while
\* another, just accepted, is not
C19_Witness ==
    /\ last = Outcome("commitClaim", "ok")
    /\ \E c \in CommitInputs :
          canRevealCommitment(c) /\ commitments[c] + REVEAL_DELAY = now
    /\ \E c \in CommitInputs : commitments[c] = now /\ ~canRevealCommitment(c)

\* C20: a claimSubdomain passes only with an expiry that is at most the parent's
\* expiry held by the registrar; a call with a greater expiry that gets past the
\* modifiers and the holder check ends with ExpiryExceedsParent, whether or not
\* a commitment is recorded for it; and every create call the registrar got has
\* an expiry of at most its parent's.
C20_ExpiryWithinParent ==
    /\ \A i \in ClaimInputs :
          /\ ResultOf(i) = "ok" => i[4] <= ParentExpiry(i[2])
          /\ (i[4] > ParentExpiry(i[2])
                  /\ ResultOf(i) \notin BeforeHolderCheck \cup { "AlreadyClaimed" })
                 => ResultOf(i) = "ExpiryExceedsParent"
    /\ \A r \in CreatesMade : r[4] <= ParentExpiry(r[1])

\* a claim has just been refused for its expiry although its commitment is
\* revealable and its proof fits the parent node's root; another was created
C20_Witness ==
    /\ last = Outcome("claimSubdomain", "ExpiryExceedsParent")
    /\ created # EmptyBag
    /\ \E i \in ClaimInputs :
          /\ ResultOf(i) = "ExpiryExceedsParent"
          /\ canRevealCommitment(CommitOf(i))
          /\ verifyMerkleProof(i[2], i[1], i[3], i[4], i[6])

(***************************************************************************)
(* Properties of the proof server (TreeSpec)                               *)
(***************************************************************************)
\* every digest a request or a row can form
LeafValues == (0 - 4 * NumRecords) .. NumRecords

\* the records in another order
Reordered(records, p) == [ i \in 1 .. Len(records) |-> records[p[i]] ]

\* the set of values of a sequence
RangeOf(seq) == { seq[i] : i \in 1 .. Len(seq) }

\* the last answer is a proof
ProofServed == response.op = "getProof" /\ response.status = 200

\* C21: for a fixed set of records, generateTree produces the same root for
\* every ordering of the records in its input
C21_RootIndependentOfOrder ==
    merkleData.records # <<>> =>
        \A p \in Permutations(1 .. Len(merkleData.records)) :
            BuiltFrom(Reordered(merkleData.records, p)).root = merkleData.root

\* a tree stands on three different leaves that were uploaded out of order
C21_Witness ==
    /\ Len(merkleData.leaves) = 3
    /\ Cardinality(RangeOf(merkleData.leaves)) = 3
    /\ merkleData.leaves # merkleData.tree

\* C22: for every record of the tree with root R, the proof getProof returns for
\* its leaf L satisfies the contract's verifier, verify(proof, R, L), whatever
\* the size of the tree, odd sizes included; and for a leaf that is not in the
\* tree, no proof of an included leaf verifies it against R
C22_ProofsVerifyMembersOnly ==
    /\ \A i \in 1 .. Len(merkleData.leaves) :
          \A index \in PositionsOf(merkleData.leaves[i], merkleData.tree) :
              MerkleVerify(ProofAt(merkleData.tree, index), merkleData.root,
                           merkleData.leaves[i])
    /\ \A other \in LeafValues \ RangeOf(merkleData.tree) :
          \A index \in 1 .. Len(merkleData.tree) :
              ~MerkleVerify(ProofAt(merkleData.tree, index), merkleData.root, other)
    /\ ProofServed =>
          /\ response.proof \in { ProofAt(merkleData.tree, index) :
                                    index \in PositionsOf(response.leaf, merkleData.tree) }
          /\ MerkleVerify(response.proof, response.merkleRoot, response.leaf)
          /\ \A other \in LeafValues \ RangeOf(merkleData.tree) :
                ~MerkleVerify(response.proof, response.merkleRoot, other)

\* a proof has been served for the leaf that a tree of three carries up unpaired
C22_Witness ==
    /\ ProofServed
    /\ Len(merkleData.tree) = 3
    /\ response.leaf = merkleData.tree[3]
    /\ merkleData.tree[2] # merkleData.tree[3]
    /\ Len(response.proof) = 1

ClaimLeafOf(record) ==
    LeafHash(record.address.account, record.subdomain.label, record.expiry.value)

\* C24: for every record given to generateTree the builder's leaf is the leaf
\* claimSubdomain recomputes for the record's holder, label and expiry, so the
\* proof from getProof passes the contract's proof check against the builder's
\* root
C24_BuilderLeafIsContractLeaf ==
    /\ \A i \in 1 .. Len(merkleData.records) :
          /\ merkleData.leaves[i] = ClaimLeafOf(merkleData.records[i])
          /\ \A index \in PositionsOf(merkleData.leaves[i], merkleData.tree) :
                ProcessProof(ProofAt(merkleData.tree, index),
                             ClaimLeafOf(merkleData.records[i])) = merkleData.root
    /\ ProofServed =>
          \E i \in 1 .. Len(merkleData.records) :
              /\ response.leaf = ClaimLeafOf(merkleData.records[i])
              /\ ProcessProof(response.proof, ClaimLeafOf(merkleData.records[i]))
                     = merkleData.root

\* a proof with a sibling has been served for the record whose row spelt the
\* address in mixed case and the label between blanks
C24_Witness ==
    /\ ProofServed
    /\ response.leaf = LeafHash(2, 2, 1)
    /\ Len(response.proof) >= 1

\* what getProof must answer to a request, told from the records of the tree
ExpectedStatus(address, subdomain, expiry) ==
    LET built      == merkleData.records # <<>>
        wellFormed == address.account # 0 /\ expiry.digits # 0
        listed     == \E i \in 1 .. Len(merkleData.records) :
                          /\ merkleData.records[i].address.account = address.account
                          /\ merkleData.records[i].subdomain = subdomain
                          /\ merkleData.records[i].expiry.value = expiry.digits
    IN  IF ~built THEN 400
        ELSE IF ~wellFormed THEN 500
        ELSE IF ~listed THEN 404
        ELSE 200

ResultOfV1(i) == ClaimResultV1(i[1], i[2], i[3], i[4], i[5], i[6])

\* C26: in the first version of the factory a claimSubdomain passes only if
\* commitClaim recorded hash(caller, subdomain, expiry, nonce) at least
\* REVEAL_DELAY earlier, and a claim that gets to the timing check without a
\* recorded commit fails with "Too early"
C26_ClaimNeedsRipeCommit ==
    [][ (last'.op = "claimSubdomain" /\ ~InFlight) =>
          \A i \in ClaimInputs :
              claimSubdomainV1(i[1], i[2], i[3], i[4], i[5], i[6]) =>
                  /\ status' = "ENTERED" =>
                        /\ CommitTime(CommitOf(i)) # 0
                        /\ CommitTime(CommitOf(i)) + REVEAL_DELAY <= now
                  /\ (CommitTime(CommitOf(i)) = 0
                        /\ ~paused /\ configs[i[2]].active /\ i[1] \notin hasClaimed) =>
                        last'.result = "Too early" ]_vars

(***************************************************************************)
(* Properties of the pause, the order of checks and single use             *)
(***************************************************************************)
\* C27: while the contract is paused configuration is disabled as claiming is:
\* an initializeConfig called while paused fails and creates no domain config
C27_PausedConfigRefused ==
    [][ \A i \in ConfigInputs :
            (paused /\ initializeConfig(i[1], i[2], i[3], i[4], i[5])) =>
                last'.result # "ok" /\ configs' = configs ]_vars

\* the errors of claimSubdomain's checks, in the order the claim gives them
CheckOrder ==
    << "ContractIsPaused", "ConfigNotActive", "AlreadyClaimed", "ExpiryExceedsParent",
       "RevealTooEarly", "SubdomainAlreadyClaimed", "InvalidMerkleProof" >>

\* whether the k-th condition of that order fails for a call, read from the
\* contract's views
CheckFails(i, k) ==
    CASE k = 1 -> paused
      [] k = 2 -> ~getConfigStats(i[2]).active
      [] k = 3 -> i[1] \in hasClaimed
      [] k = 4 -> i[4] > ParentExpiry(i[2])
      [] k = 5 -> ~canRevealCommitment(CommitOf(i))
      [] k = 6 -> isLeafClaimed(i[1], i[3], i[4])
      [] k = 7 -> ~verifyMerkleProof(i[2], i[1], i[3], i[4], i[6])

FailingChecks(i) == { k \in 1 .. Len(CheckOrder) : CheckFails(i, k) }

RECURSIVE FirstFailureFrom(_, _)
\* the error of the earliest failing condition from the k-th on, "ok" when none fails
FirstFailureFrom(i, k) ==
    IF k > Len(CheckOrder) THEN "ok"
    ELSE IF CheckFails(i, k) THEN CheckOrder[k]
    ELSE FirstFailureFrom(i, k + 1)

FirstFailure(i) == FirstFailureFrom(i, 1)

\* C28: claimSubdomain makes its checks in a fixed order and reports the first
\* that fails: paused, inactive config, caller already claimed, expiry exceeds
\* parent, reveal timing, leaf already claimed, invalid proof; when several
\* conditions fail at once the error is that of the earliest in this order
C28_FirstFailingCheckReported ==
    ~InFlight => \A i \in ClaimInputs : ResultOf(i) = FirstFailure(i)

\* a caller who has claimed has been refused as such, on a live config, by a call
\* whose commitment is too early as well
C28_Witness ==
    /\ last = Outcome("claimSubdomain", "AlreadyClaimed")
    /\ ~paused
    /\ \E i \in ClaimInputs :
          /\ {3, 5} \subseteq FailingChecks(i)
          /\ FailingChecks(i) \cap {1, 2} = {}
          /\ ResultOf(i) = "AlreadyClaimed"

\* the commitments a claim in flight has deleted
Revealed == { c \in CommitInputs : frame.pre.commitments[c] # 0 /\ commitments[c] = 0 }

\* C29: a commitment is single-use: once a claimSubdomain has passed, the
\* commitment it revealed is gone (getCommitmentTimestamp is 0, canRevealCommitment
\* is false) and stays gone when the claim completes; a commitment that is gone
\* passes no timing check, and it comes back only by a commitClaim, with the time
\* of that call, from which the delay runs again
C29_CommitmentSingleUse ==
    /\ [](/\ InFlight =>
               \E n \in Nonces :
                   Revealed = { CommitHash(frame.caller, frame.subdomain, frame.expiry, n) }
          /\ \A i \in ClaimInputs :
                getCommitmentTimestamp(CommitOf(i)) = 0 => ~PassedTiming(ResultOf(i)))
    /\ [][ (commitments' # commitments \/ last' = Outcome("claimSubdomain", "ok")) =>
          \A c \in CommitInputs :
            /\ (last' = Outcome("claimSubdomain", "ok") /\ c \in Revealed) =>
                  /\ getCommitmentTimestamp(c)' = 0
                  /\ ~canRevealCommitment(c)'
            /\ (CommitTime(c) = 0 /\ CommitTime(c)' # 0 /\ ~InFlight) =>
                  /\ last' = Outcome("commitClaim", "ok")
                  /\ CommitTime(c)' = now'
                  /\ ~canRevealCommitment(c)' ]_vars

\* a claim has completed, the commitment of the created record is gone, and
\* another commitment is still recorded
C29_Witness ==
    /\ last = Outcome("claimSubdomain", "ok")
    /\ \E r \in BagToSet(created), n \in Nonces :
          /\ getCommitmentTimestamp(CommitHash(r[3], r[2], r[4], n)) = 0
          /\ ~canRevealCommitment(CommitHash(r[3], r[2], r[4], n))
    /\ \E c \in CommitInputs : CommitTime(c) # 0

\* the proof check refuses the claim, and the claim is the one being made
RefusedForProof(i) ==
    /\ ResultOf(i) = "InvalidMerkleProof"
    /\ claimSubdomain(i[1], i[2], i[3], i[4], i[5], i[6])

\* the same claim with another proof
WithProof(i, proof) == << i[1], i[2], i[3], i[4], i[5], proof >>

\* C30 as stated: after a claimSubdomain is rejected for an invalid Merkle proof
\* the commitment it revealed is no longer usable, the same caller's claim with
\* the same label, expiry and nonce fails the timing check until a new
\* commitClaim and its delay
C30_RejectedProofSpendsCommitment ==
    [][ last' = Outcome("claimSubdomain", "InvalidMerkleProof") =>
          \A i \in ClaimInputs :
              RefusedForProof(i) =>
                  /\ ~canRevealCommitment(CommitOf(i))'
                  /\ \A proof \in Proofs : ~PassedTiming(ResultOf(WithProof(i, proof)))' ]_vars

\* C30: a claimSubdomain rejected for an invalid Merkle proof leaves the ledger,
\* commitments included, as it was before the call; and whenever the proof check
\* is what refuses a call, the commitment the call reveals is recorded and
\* revealable, so that the same caller's claim with the same label, expiry and
\* nonce passes the timing check again with no new commitClaim, and with a valid
\* proof passes every check
C30_RejectedProofKeepsCommitment ==
    /\ [][ (last' = Outcome("claimSubdomain", "InvalidMerkleProof") /\ now' = now) =>
              /\ Ledger' = Ledger
              /\ \E i \in ClaimInputs : RefusedForProof(i) ]_vars
    /\ [](\A i \in ClaimInputs :
            ResultOf(i) = "InvalidMerkleProof" =>
                /\ getCommitmentTimestamp(CommitOf(i)) # 0
                /\ canRevealCommitment(CommitOf(i))
                /\ \A proof \in Proofs :
                      LET j == WithProof(i, proof) IN
                      /\ PassedTiming(ResultOf(j))
                      /\ verifyMerkleProof(j[2], j[1], j[3], j[4], j[6]) =>
                            ResultOf(j) = "ok")

\* a claim has just been refused for its proof, and the same call with the
\* sibling as its proof passes every check on the commitment that is still there
C30_Witness ==
    /\ last = Outcome("claimSubdomain", "InvalidMerkleProof")
    /\ \E i \in ClaimInputs, proof \in Proofs :
          /\ ResultOf(i) = "InvalidMerkleProof"
          /\ ResultOf(WithProof(i, proof)) = "ok"
          /\ canRevealCommitment(CommitOf(i))

(***************************************************************************)
(* Properties of the ledger as transactions leave it                       *)
(***************************************************************************)
\* the ledger as the last completed transaction left it: what a claim in flight
\* has written is not final until the registrar returns
Committed == IF InFlight THEN frame.pre ELSE Ledger

\* C31: claimed is terminal and the ledger only moves forward: a leaf marked
\* claimed and a holder marked as having claimed stay marked, a domain's
\* claimedCount never decreases and an active config never becomes inactive,
\* whatever is called next, pause, unpause and initializeConfig included
C31_LedgerOnlyMovesForward ==
    [][ <<status, frame, claimed, hasClaimed, configs>>' # <<status, frame, claimed, hasClaimed, configs>> =>
        /\ Committed.claimed \subseteq Committed'.claimed
        /\ Committed.hasClaimed \subseteq Committed'.hasClaimed
        /\ \A d \in Domains :
              /\ Committed.configs[d].claimedCount <= Committed'.configs[d].claimedCount
              /\ Committed.configs[d].active => Committed'.configs[d].active ]_vars

\* with a claim completed and counted, an initializeConfig for the domain has
\* just been refused while the contract is paused
C31_Witness ==
    /\ last = Outcome("initializeConfig", "ConfigAlreadyExists")
    /\ paused
    /\ claimed # {} /\ hasClaimed # {}
    /\ \E d \in Domains : configs[d].claimedCount >= 1

(***************************************************************************)
(* Properties of the web client (ClientSpec)                               *)
(***************************************************************************)
\* the checks claimSubdomain makes before the timing check let the form's claim
\* through
FormReachesTiming(signer, parentNode) ==
    /\ ~paused
    /\ configs[parentNode].active
    /\ ~HolderMarked(signer)
    /\ ~ExpiryExceeds(parentNode, client.expiry)

\* C32: the commitment handleCommit computes and submits for (holder, label,
\* expiry, nonce) is the hash claimSubdomain recomputes from the caller and the
\* revealed label, expiry and nonce, so a holder who commits through handleCommit,
\* waits until the commitment is revealable and reveals through handleClaim with
\* the kept nonce passes the contract's timing check
C32_ClientCommitmentMatches ==
    /\ [](client.committed =>
            client.commitment = CommitHash(client.address, client.subdomain,
                                           client.expiry, client.nonce))
    /\ [][ \A d \in Domains :
            ( /\ client.committed
              /\ canRevealCommitment(client.commitment)
              /\ FormReachesTiming(client.address, d)
              /\ handleClaim(client.address, d) )
            => last'.result # "RevealTooEarly" ]_vars

\* the claims that have succeeded: the subdomains the registrar created
Succeeded(h, l, e) == \E d \in Domains : <<d, l, h, e>> \in BagToSet(created)

\* the claim whose registrar call is running, if any
Running(h, l, e) == InFlight /\ frame.caller = h /\ frame.subdomain = l /\ frame.expiry = e

\* C33: isLeafClaimed(holder, label, expiry) is true exactly when a claimSubdomain by
\* that holder with that label and expiry has succeeded (inside the transaction of a
\* claim, exactly when it has succeeded or is the claim being made); it is false for
\* a record that was only committed or whose claims all failed
C33_LeafClaimedIffClaimSucceeded ==
    \A h \in Identities, l \in Labels, e \in Expiries :
        isLeafClaimed(h, l, e) <=> (Succeeded(h, l, e) \/ Running(h, l, e))

\* one holder's claim succeeded; another record was committed and its claim failed
C33_Witness ==
    /\ ~InFlight
    /\ \E h \in Identities, l \in Labels, e \in Expiries :
          isLeafClaimed(h, l, e) /\ Succeeded(h, l, e)
    /\ \E i \in Intents :
          /\ commitments[CommitHash(i[1], i[2], i[3], i[4])] # 0
          /\ ~isLeafClaimed(i[1], i[2], i[3])
    /\ last = Outcome("claimSubdomain", "InvalidMerkleProof")

\* the leaves whose holder is h
LeavesHeldBy(h) == { LeafHash(h, l, e) : l \in Labels, e \in Expiries }

\* the leaf is a leaf of the entitlement set with this root
Listed(root, leaf) == \E p \in Proofs : MerkleVerify(p, root, leaf)

\* C34: a successful claimSubdomain by caller C marks exactly the leaf
\* hash(C, label, expiry), marks exactly C and creates the subdomain with owner C;
\* a leaf held by H and H's holder flag are marked only in a claim H makes, a claim
\* passes only on the caller's own commitment and a proof of the caller's own leaf,
\* and every subdomain created belongs to an owner listed for it in the domain's tree
C34_ClaimsBoundToCaller ==
    /\ [](\A r \in BagToSet(created) :
             /\ r[3] \in hasClaimed
             /\ LeafHash(r[3], r[2], r[4]) \in claimed
             /\ Listed(configs[r[1]].merkleRoot, LeafHash(r[3], r[2], r[4])))
    /\ [][ /\ ClaimPasses =>
                /\ claimed' = claimed \cup { LeafHash(frame'.caller, frame'.subdomain, frame'.expiry) }
                /\ hasClaimed' = hasClaimed \cup { frame'.caller }
                /\ frame'.caller \notin hasClaimed
                /\ \E n \in Nonces :
                      ~TooEarly(CommitTime(CommitHash(frame'.caller, frame'.subdomain,
                                                      frame'.expiry, n)))
                /\ Listed(configs[frame'.parentNode].merkleRoot,
                          LeafHash(frame'.caller, frame'.subdomain, frame'.expiry))
           /\ (claimed' # claimed \/ hasClaimed' # hasClaimed) =>
                \A h \in Identities :
                    ( h \in hasClaimed' \ hasClaimed
                      \/ LeavesHeldBy(h) \cap (claimed' \ claimed) # {} )
                    => ClaimPasses /\ frame'.caller = h
           /\ created' # created =>
                created' = created (+) SetToBag({ <<frame.parentNode, frame.subdomain,
                                                    frame.caller, frame.expiry>> }) ]_vars

\* holder 1 claimed and owns the subdomain; holder 2, who committed, is not marked
\* and holds nothing, and the last claim was refused for its proof
C34_Witness ==
    /\ hasClaimed = {1}
    /\ claimed = { LeafHash(1, 1, 1) }
    /\ \E d \in Domains : BagToSet(created) = { <<d, 1, 1, 1>> }
    /\ commitments[CommitHash(2, 2, 1, 1)] # 0
    /\ last = Outcome("claimSubdomain", "InvalidMerkleProof")

\* the sum of claimedCount over the configs of the domains in S
RECURSIVE ClaimedCountOver(_)
ClaimedCountOver(S) ==
    IF S = {} THEN 0
    ELSE LET d == CHOOSE x \in S : TRUE
         IN  configs[d].claimedCount + ClaimedCountOver(S \ {d})

\* C35: the number of leaves marked claimed equals the number of holders marked as
\* having claimed, and both equal the sum of claimedCount over all domain configs
C35_TalliesAgree ==
    /\ Cardinality(claimed) = Cardinality(hasClaimed)
    /\ Cardinality(claimed) = ClaimedCountOver(Domains)

\* two claims were made and created, one in each domain, and an initializeConfig
\* for a configured domain was then refused
C35_Witness ==
    /\ Cardinality(claimed) = 2
    /\ \A d \in Domains : configs[d].claimedCount = 1
    /\ Cardinality(BagToSet(created)) = 2
    /\ last = Outcome("initializeConfig", "ConfigAlreadyExists")

\* every claimed leaf's holder is marked as having claimed
ClaimedLeafHolderMarked ==
    \A h \in Identities, l \in Labels, e \in Expiries :
        isLeafClaimed(h, l, e) => h \in hasClaimed

\* C36 (as claimed): the holder of every claimed leaf is marked, every claimSubdomain
\* for a claimed leaf ends with AlreadyClaimed, and none ends with
\* SubdomainAlreadyClaimed
C36_ClaimedLeafAlwaysAlreadyClaimed ==
    /\ ClaimedLeafHolderMarked
    /\ \A i \in ClaimInputs :
          /\ LeafOf(i) \in claimed => ResultOf(i) = "AlreadyClaimed"
          /\ ResultOf(i) # "SubdomainAlreadyClaimed"

\* C36 (amended): the holder of every claimed leaf is marked; a claimSubdomain for a
\* claimed leaf gets no further than the holder check: it ends with AlreadyClaimed
\* unless the reentrancy guard, the pause or the inactive domain, which are looked
\* at first, already refused it; and SubdomainAlreadyClaimed is never produced
C36_ClaimedLeafStopsAtHolderCheck ==
    /\ ClaimedLeafHolderMarked
    /\ \A i \in ClaimInputs :
          /\ LeafOf(i) \in claimed =>
                /\ HolderMarked(i[1])
                /\ ResultOf(i) \in BeforeHolderCheck \cup { "AlreadyClaimed" }
                /\ (~Entered /\ ~paused /\ configs[i[2]].active)
                      => ResultOf(i) = "AlreadyClaimed"
          /\ ResultOf(i) # "SubdomainAlreadyClaimed"
    /\ last.result # "SubdomainAlreadyClaimed"

\* a leaf is claimed, a further claim for it was refused with AlreadyClaimed, and
\* the same claim against a domain that was never configured ends with ConfigNotActive
C36_Witness ==
    /\ ~paused /\ ~InFlight
    /\ last = Outcome("claimSubdomain", "AlreadyClaimed")
    /\ \E i, j \in ClaimInputs :
          /\ LeafOf(i) \in claimed /\ ResultOf(i) = "AlreadyClaimed"
          /\ LeafOf(j) = LeafOf(i) /\ ResultOf(j) = "ConfigNotActive"

\* the registrar call of the running claim returns in this step: the claim succeeded
ClaimSucceeds ==
    status = "ENTERED" /\ status' = "NOT_ENTERED" /\ last' = Outcome("claimSubdomain", "ok")

\* storage s1 differs from storage s0 by one claim of caller c against domain d for
\* (label, expiry): the leaf flag, the holder flag, the domain's count raised by
\* one and one of the caller's commitments for that record deleted, nothing else
OneClaimApart(s0, s1, c, d, label, expiry) ==
    LET leaf == LeafHash(c, label, expiry) IN
    /\ leaf \notin s0.claimed /\ s1.claimed = s0.claimed \cup {leaf}
    /\ c \notin s0.hasClaimed /\ s1.hasClaimed = s0.hasClaimed \cup {c}
    /\ s1.configs = [s0.configs EXCEPT ![d].claimedCount = @ + 1]
    /\ s1.configs[d].claimedCount = s0.configs[d].claimedCount + 1
    /\ \E n \in Nonces :
          LET commitment == CommitHash(c, label, expiry, n) IN
          /\ commitment \in DOMAIN s0.commitments
          /\ s0.commitments[commitment] # 0
          /\ s1.commitments = [s0.commitments EXCEPT ![commitment] = 0]
    /\ s1.paused = s0.paused

\* C37: a successful claimSubdomain against domain D by caller C changes only the
\* claimed flag of leaf hash(C, label, expiry), C's hasClaimed flag, D's
\* claimedCount (raised by exactly 1) and the revealed commitment (deleted); the
\* rest of D's config, every other config, commitment, leaf and holder flag and
\* the paused flag are as they were before the call
C37_SuccessfulClaimFrame ==
    [][ /\ ClaimPasses =>
              OneClaimApart(Ledger, Ledger', frame'.caller, frame'.parentNode,
                            frame'.subdomain, frame'.expiry)
        /\ ClaimSucceeds =>
              OneClaimApart(frame.pre, Ledger', frame.caller, frame.parentNode,
                            frame.subdomain, frame.expiry) ]_vars

\* holder 2's claim has just succeeded after holder 1's; both domains are
\* configured and holder 2's other commitment is still recorded
C37_Witness ==
    /\ last = Outcome("claimSubdomain", "ok")
    /\ hasClaimed = {1, 2}
    /\ \A d \in Domains : configs[d].active
    /\ \E c \in CommitInputs : commitments[c] # 0

(***************************************************************************)
(* Properties of the proof server under concurrent requests (RaceSpec)     *)
(***************************************************************************)
\* a generateTree request has been answered with a failure
UploadFailed == response.op = "generateTree" /\ response.status # 200

C39_StoredDataFromOneUpload ==
    /\ [](\/ merkleData = NoMerkleData
          \/ /\ \E file \in RaceUploads : merkleData.records = ProcessedRows(file.rows)
             /\ merkleData.leaves = LeavesOf(merkleData.records)
             /\ merkleData.tree = SortedLeaves(merkleData.leaves)
             /\ merkleData.root = getHexRoot(merkleData.tree))
    /\ [](ProofServed => MerkleVerify(response.proof, response.merkleRoot, response.leaf))
    /\ [][ ProofServed' =>
              /\ response'.merkleRoot = merkleData.root
              /\ \E index \in PositionsOf(response'.leaf, merkleData.tree) :
                    response'.proof = ProofAt(merkleData.tree, index) ]_vars

\* a proof was served from a stored tree while two uploads were being read, one
\* of them holding rows that are not the stored records
C39_Witness ==
    /\ ProofServed
    /\ response.proof # <<>>
    /\ Cardinality(pending) = 2
    /\ \E req \in pending : req.rows # <<>> /\ req.rows # merkleData.records
====
